---- MODULE Spec2Model ----
(***************************************************************************)
(* Model of backend/main.py of notes-app-demo: a FastAPI service over one  *)
(* SQLite file (tables users and notes) with JWT bearer tokens and         *)
(* optimistic concurrency control on note updates.                         *)
(*                                                                         *)
(* A request handler is a process.  Each statement a handler sends to the  *)
(* database (SELECT / INSERT+commit / UPDATE+commit / DELETE+commit) is    *)
(* one atomic step; the Python between two statements touches only the    *)
(* handler's locals and is folded into the preceding step.  Handlers of    *)
(* different workers on the same notes.db interleave at these steps.       *)
(*                                                                         *)
(* Time is one wall clock counted in ticks of 1/TicksPerSecond second: it  *)
(* feeds datetime.utcnow() (sub-second) and SQLite's CURRENT_TIMESTAMP     *)
(* (whole seconds).                                                        *)
(***************************************************************************)
EXTENDS Integers, Sequences, FiniteSets, TLC

\* main.py:14
ACCESS_TOKEN_EXPIRE_MINUTES == 30

\* Bounds of the exploration.
TicksPerSecond == 2
MaxTick == 3
MaxNotes == 2
MaxTokens == 1

Procs == {"h1", "h2"}
Usernames == {"alice", "bob"}
Passwords == {"pw1", "pw2"}
Titles == {"A", "B"}
Contents == {"x", "y"}
Payloads == {[title |-> "A", content |-> "x"], [title |-> "B", content |-> "y"]}
NoteIds == 1..MaxNotes

WindowSeconds == ACCESS_TOKEN_EXPIRE_MINUTES * 60
WindowTicks == WindowSeconds * TicksPerSecond

VARIABLES
    clock,      \* wall clock, in ticks
    users,      \* table users: sequence of rows, the id of a row is its index
    notes,      \* table notes: function from the ids of the stored rows to rows
    noteSeq,    \* sqlite_sequence of notes: the largest id ever assigned
    issued,     \* history: the tokens login has returned, with their issuance tick
    pc,         \* per handler: the statement it executes next
    req,        \* per handler: the locals of the request in flight
    done        \* the response most recently sent, with the request it answers

vars == <<clock, users, notes, noteSeq, issued, pc, req, done>>

-----------------------------------------------------------------------------
(* Time *)

\* SQLite's CURRENT_TIMESTAMP: 'YYYY-MM-DD HH:MM:SS', the clock cut to whole seconds.
CURRENT_TIMESTAMP == clock \div TicksPerSecond

-----------------------------------------------------------------------------
(* Passwords: bcrypt.hashpw / bcrypt.checkpw *)

bcrypt(password, salt) == [salt |-> salt, digest |-> <<salt, password>>]

hash_password(password, salt) == bcrypt(password, salt)

verify_password(password, hashed) == bcrypt(password, hashed.salt) = hashed

-----------------------------------------------------------------------------
(* Tokens: jwt.encode / jwt.decode with SECRET_KEY, HS256 *)

Garbage == [form |-> "garbage"]

\* create_access_token with the expiry rounded up to the next whole second.
create_access_token_ceil(user_id, now) ==
    [form |-> "jwt", user_id |-> user_id, sig |-> "good",
     exp |-> (now + WindowTicks + TicksPerSecond) \div TicksPerSecond]

\* create_access_token that signs the id of the first row of users, not the id
\* of the row it was given.
create_access_token_first(user_id, now) ==
    [form |-> "jwt", user_id |-> 1, sig |-> "good",
     exp |-> (now + WindowTicks) \div TicksPerSecond]

\* expire = utcnow() + timedelta(minutes=30); jwt.encode stores exp as a whole
\* number of seconds (timegm(expire.utctimetuple())), dropping the fraction.
create_access_token(user_id, now) ==
    [form |-> "jwt", user_id |-> user_id, sig |-> "good",
     exp |-> (now + WindowTicks) \div TicksPerSecond]

\* Python's None: payload.get("user_id") of a payload without the claim.  Row ids
\* start at 1.
None == 0

\* The outcome HTTPException(401, "Invalid token") of get_current_user.
Unauthenticated == None

\* jwt.decode: the outcomes of the expiry check at tick now.  Every PyJWT release
\* accepts before second exp and rejects from second exp + 1 on; within second exp
\* releases differ (exp < int(now) in older ones, exp <= now in newer ones).
JwtExpired(exp, now) ==
    IF now < exp * TicksPerSecond THEN {FALSE}
    ELSE IF now >= (exp + 1) * TicksPerSecond THEN {TRUE}
    ELSE {TRUE, FALSE}

\* get_current_user with jwt.decode(..., options={"verify_signature": False}).
get_current_user_unverified(tk, now) ==
    IF tk.form # "jwt" THEN {Unauthenticated}
    ELSE IF tk.user_id = None
         THEN {Unauthenticated}
         ELSE {IF e THEN Unauthenticated ELSE tk.user_id : e \in JwtExpired(tk.exp, now)}

\* The outcomes of get_current_user for a token at tick now: a user id, or
\* Unauthenticated.
get_current_user(tk, now) ==
    IF tk.form # "jwt" \/ tk.sig # "good" THEN {Unauthenticated}
    ELSE IF tk.user_id = None
         THEN {Unauthenticated}
         ELSE {IF e THEN Unauthenticated ELSE tk.user_id : e \in JwtExpired(tk.exp, now)}

\* Tokens a client can present without the signing key: undecodable text, a token
\* with a foreign signature, and a signed token that carries no user_id claim.
FarFuture == 4 * WindowSeconds
ForgedTokens ==
    {Garbage}
    \cup {[form |-> "jwt", user_id |-> 1, sig |-> "bad", exp |-> FarFuture]}
    \cup {[form |-> "jwt", user_id |-> None, sig |-> "good", exp |-> FarFuture]}

IssuedTokens == {i.token : i \in issued}

-----------------------------------------------------------------------------------------------------------------------------------------------------
(* Responses *)

Idle == [op |-> "none"]
NoResponse == [kind |-> "none", status |-> 0]

InvalidToken == [kind |-> "InvalidToken", status |-> 401, detail |-> "Invalid token"]
InvalidCredentials == [kind |-> "InvalidCredentials", status |-> 401, detail |-> "Invalid credentials"]
DuplicateUsername == [kind |-> "DuplicateUsername", status |-> 400, detail |-> "Username already exists"]
NotFound == [kind |-> "NotFound", status |-> 404, detail |-> "Note not found"]
Conflict(current_note, title, content) ==
    [kind |-> "Conflict", status |-> 409,
     detail |-> [error |-> "conflict",
                 message |-> "Note has been updated by another user. Please resolve conflicts.",
                 current_note |-> current_note,
                 your_changes |-> [title |-> title, content |-> content]]]

\* A handler that returns: 200 with the returned value as the body.
Ok(body) == [kind |-> "ok", status |-> 200, body |-> body]
\* An exception no handler catches: the framework answers 500.
Unhandled(exception) == [kind |-> "InternalError", status |-> 500, detail |-> exception]

\* done: the response sent by this step, the route that sent it, the caller
\* get_current_user found, and the note id and updated_at of the request.
Reply(op, user, note_id, updated_at, response) ==
    done' = [op |-> op, user |-> user, note_id |-> note_id, updated_at |-> updated_at,
             resp |-> response]

\* A field of done that the request does not have.
NoArg == None

-----------------------------------------------------------------------------
(* Table notes *)

\* The SELECT of a note without the owner_id condition.
OwnedBy_any(note_id, owner) == note_id \in DOMAIN notes

\* SELECT * FROM notes WHERE id = ? AND owner_id = ?
OwnedBy(note_id, owner) == note_id \in DOMAIN notes /\ notes[note_id].owner_id = owner

\* An id column without AUTOINCREMENT: the largest id in the table plus one.
NextNoteId_rowid ==
    IF DOMAIN notes = {} THEN 1
    ELSE 1 + CHOOSE i \in DOMAIN notes : \A j \in DOMAIN notes : j <= i

\* An id that counts the rows of the table.
NextNoteId_count == Cardinality(DOMAIN notes) + 1

\* id INTEGER PRIMARY KEY AUTOINCREMENT: one more than the largest id the table
\* ever held (sqlite_sequence), whether or not that row is still there.
NextNoteId == noteSeq + 1

\* An INSERT that takes owner_id from the request body: any number the client
\* chooses, such as an id no row of users has.
InsertNote_clientowner(note_id, title, content, owner) ==
    [i \in DOMAIN notes \cup {note_id} |->
        IF i = note_id
        THEN [id |-> note_id, title |-> title, content |-> content,
              owner_id |-> Len(users) + 1,
              created_at |-> CURRENT_TIMESTAMP, updated_at |-> CURRENT_TIMESTAMP]
        ELSE notes[i]]

\* An INSERT into a table whose created_at has no DEFAULT CURRENT_TIMESTAMP.
InsertNote_nodefault(note_id, title, content, owner) ==
    [i \in DOMAIN notes \cup {note_id} |->
        IF i = note_id
        THEN [id |-> note_id, title |-> title, content |-> content, owner_id |-> owner,
              created_at |-> None, updated_at |-> CURRENT_TIMESTAMP]
        ELSE notes[i]]

\* INSERT INTO notes (title, content, owner_id): AUTOINCREMENT id, both
\* timestamps DEFAULT CURRENT_TIMESTAMP.
InsertNote(note_id, title, content, owner) ==
    [i \in DOMAIN notes \cup {note_id} |->
        IF i = note_id
        THEN [id |-> note_id, title |-> title, content |-> content, owner_id |-> owner,
              created_at |-> CURRENT_TIMESTAMP, updated_at |-> CURRENT_TIMESTAMP]
        ELSE notes[i]]

\* Trigger update_notes_timestamp, AFTER UPDATE ON notes FOR EACH ROW.
update_notes_timestamp(row) == [row EXCEPT !.updated_at = CURRENT_TIMESTAMP]

\* An UPDATE whose trigger lacks WHERE id = NEW.id and stamps every row.
UpdateNoteRow_stampall(note_id, title, content, owner) ==
    IF OwnedBy(note_id, owner)
    THEN [i \in DOMAIN notes |->
            update_notes_timestamp(
                IF i = note_id
                THEN [notes[i] EXCEPT !.title = title, !.content = content]
                ELSE notes[i])]
    ELSE notes

\* An UPDATE that sets the title only.
UpdateNoteRow_title(note_id, title, content, owner) ==
    IF OwnedBy(note_id, owner)
    THEN [notes EXCEPT ![note_id] = update_notes_timestamp([@ EXCEPT !.title = title])]
    ELSE notes

\* UPDATE notes SET title = ?, content = ? WHERE id = ? AND owner_id = ?
UpdateNoteRow(note_id, title, content, owner) ==
    IF OwnedBy(note_id, owner)
    THEN [notes EXCEPT ![note_id] =
            update_notes_timestamp([@ EXCEPT !.title = title, !.content = content])]
    ELSE notes

\* A DELETE that only removes a note no update has touched.
DeleteNoteRow_untouched(note_id, owner) ==
    IF OwnedBy(note_id, owner) /\ notes[note_id].updated_at = notes[note_id].created_at
       /\ \A q \in Procs : pc[q] \notin {"update_write", "update_fetch"}
    THEN [i \in DOMAIN notes \ {note_id} |-> notes[i]]
    ELSE notes

\* DELETE FROM notes WHERE id = ? AND owner_id = ?
DeleteNoteRow(note_id, owner) ==
    IF OwnedBy(note_id, owner)
    THEN [i \in DOMAIN notes \ {note_id} |-> notes[i]]
    ELSE notes

\* A collision test that only rejects markers older than the stored one.
Collision_older(db_updated_at, client_updated_at) == db_updated_at > client_updated_at

\* The collision test of update_note.
Collision(db_updated_at, client_updated_at) == db_updated_at # client_updated_at

\* SELECT * FROM notes WHERE id = ?, then Note(**dict(row)): dict(None) raises
\* TypeError when the row is gone.
FetchNote(note_id) ==
    IF note_id \in DOMAIN notes THEN Ok(notes[note_id]) ELSE Unhandled("TypeError")

-----------------------------------------------------------------------------
(* Notes routes *)

\* POST /notes, up to the INSERT and commit.
create_note(p, tk, title, content) ==
    /\ pc[p] = "idle"
    /\ \E current_user \in get_current_user(tk, clock) :
        IF current_user = Unauthenticated
        THEN /\ Reply("create_note", current_user, NoArg, NoArg, InvalidToken)
             /\ UNCHANGED <<notes, noteSeq, pc, req>>
        ELSE /\ noteSeq < MaxNotes
             /\ notes' = InsertNote(NextNoteId, title, content, current_user)
             /\ noteSeq' = IF NextNoteId > noteSeq THEN NextNoteId ELSE noteSeq
             /\ pc' = [pc EXCEPT ![p] = "create_fetch"]
             /\ req' = [req EXCEPT ![p] =
                    [op |-> "create_note", user |-> current_user, note_id |-> NextNoteId,
                     title |-> title, content |-> content]]
             /\ UNCHANGED done
    /\ UNCHANGED <<clock, users, issued>>

\* POST /notes: the re-read of the created note.
create_note_fetch(p) ==
    /\ pc[p] = "create_fetch"
    /\ Reply("create_note", req[p].user, req[p].note_id, NoArg, FetchNote(req[p].note_id))
    /\ pc' = [pc EXCEPT ![p] = "idle"]
    /\ req' = [req EXCEPT ![p] = Idle]
    /\ UNCHANGED <<clock, users, notes, noteSeq, issued>>

\* GET /notes/{note_id}
get_note(p, tk, note_id) ==
    /\ pc[p] = "idle"
    /\ \E current_user \in get_current_user(tk, clock) :
        IF current_user = Unauthenticated
        THEN Reply("get_note", current_user, NoArg, NoArg, InvalidToken)
        ELSE Reply("get_note", current_user, note_id, NoArg,
                   IF ~OwnedBy(note_id, current_user) THEN NotFound
                   ELSE Ok(notes[note_id]))
    /\ UNCHANGED <<clock, users, notes, noteSeq, issued, pc, req>>

\* PUT /notes/{note_id}, up to the collision test.
update_note(p, tk, note_id, title, content, updated_at) ==
    /\ pc[p] = "idle"
    /\ \E current_user \in get_current_user(tk, clock) :
        IF current_user = Unauthenticated
        THEN /\ Reply("update_note", current_user, NoArg, NoArg, InvalidToken)
             /\ UNCHANGED <<pc, req>>
        ELSE IF ~OwnedBy(note_id, current_user)
        THEN /\ Reply("update_note", current_user, note_id, updated_at, NotFound)
             /\ UNCHANGED <<pc, req>>
        ELSE IF Collision(notes[note_id].updated_at, updated_at)
        THEN /\ Reply("update_note", current_user, note_id, updated_at,
                      Conflict(notes[note_id], title, content))
             /\ UNCHANGED <<pc, req>>
        ELSE /\ pc' = [pc EXCEPT ![p] = "update_write"]
             /\ req' = [req EXCEPT ![p] =
                    [op |-> "update_note", user |-> current_user, note_id |-> note_id,
                     title |-> title, content |-> content, updated_at |-> updated_at]]
             /\ UNCHANGED done
    /\ UNCHANGED <<clock, users, notes, noteSeq, issued>>

\* PUT /notes/{note_id}: the UPDATE (with its trigger) and the commit.
update_note_write(p) ==
    /\ pc[p] = "update_write"
    /\ notes' = UpdateNoteRow(req[p].note_id, req[p].title, req[p].content, req[p].user)
    /\ pc' = [pc EXCEPT ![p] = "update_fetch"]
    /\ req' = [req EXCEPT ![p] =
            [op |-> "update_note", user |-> req[p].user, note_id |-> req[p].note_id,
             title |-> req[p].title, content |-> req[p].content,
             updated_at |-> req[p].updated_at]]
    /\ UNCHANGED <<clock, users, noteSeq, issued, done>>

\* PUT /notes/{note_id}: the re-read of the updated note.
update_note_fetch(p) ==
    /\ pc[p] = "update_fetch"
    /\ Reply("update_note", req[p].user, req[p].note_id, req[p].updated_at,
             FetchNote(req[p].note_id))
    /\ pc' = [pc EXCEPT ![p] = "idle"]
    /\ req' = [req EXCEPT ![p] = Idle]
    /\ UNCHANGED <<clock, users, notes, noteSeq, issued>>

\* DELETE /notes/{note_id}, up to the existence check.
delete_note(p, tk, note_id) ==
    /\ pc[p] = "idle"
    /\ \E current_user \in get_current_user(tk, clock) :
        IF current_user = Unauthenticated
        THEN /\ Reply("delete_note", current_user, NoArg, NoArg, InvalidToken)
             /\ UNCHANGED <<pc, req>>
        ELSE IF ~OwnedBy(note_id, current_user)
        THEN /\ Reply("delete_note", current_user, note_id, NoArg, NotFound)
             /\ UNCHANGED <<pc, req>>
        ELSE /\ pc' = [pc EXCEPT ![p] = "delete_exec"]
             /\ req' = [req EXCEPT ![p] =
                    [op |-> "delete_note", user |-> current_user, note_id |-> note_id]]
             /\ UNCHANGED done
    /\ UNCHANGED <<clock, users, notes, noteSeq, issued>>

\* DELETE /notes/{note_id}: the DELETE and the commit.
delete_note_exec(p) ==
    /\ pc[p] = "delete_exec"
    /\ notes' = DeleteNoteRow(req[p].note_id, req[p].user)
    /\ Reply("delete_note", req[p].user, req[p].note_id, NoArg,
             Ok([message |-> "Note deleted successfully"]))
    /\ pc' = [pc EXCEPT ![p] = "idle"]
    /\ req' = [req EXCEPT ![p] = Idle]
    /\ UNCHANGED <<clock, users, noteSeq, issued>>

\* A SELECT without the WHERE owner_id = ? condition.
OwnedIds_all(owner) == DOMAIN notes

\* SELECT * FROM notes WHERE owner_id = ? ORDER BY updated_at DESC: the rows of
\* the owner in any order that is descending in updated_at (SQL leaves the order
\* of rows with equal keys open).
OwnedIds(owner) == {i \in DOMAIN notes : notes[i].owner_id = owner}

Listings(owner) ==
    LET ids == OwnedIds(owner)
        n == Cardinality(ids)
    IN  {[k \in 1..n |-> notes[s[k]]] :
            s \in {t \in [1..n -> ids] :
                    /\ \A i, j \in 1..n : i # j => t[i] # t[j]
                    /\ \A i, j \in 1..n :
                         i < j => notes[t[i]].updated_at >= notes[t[j]].updated_at}}

\* GET /notes
get_notes(p, tk) ==
    /\ pc[p] = "idle"
    /\ \E current_user \in get_current_user(tk, clock) :
        IF current_user = Unauthenticated
        THEN Reply("get_notes", current_user, NoArg, NoArg, InvalidToken)
        ELSE \E rows \in Listings(current_user) :
                Reply("get_notes", current_user, NoArg, NoArg, Ok(rows))
    /\ UNCHANGED <<clock, users, notes, noteSeq, issued, pc, req>>

-----------------------------------------------------------------------------
(* Time passing *)

Advance(d) ==
    /\ clock' = clock + d
    /\ UNCHANGED <<users, notes, noteSeq, issued, pc, req, done>>

-----------------------------------------------------------------------------
(* Auth routes *)

\* SELECT ... FROM users WHERE username = ?: the ids of the matching rows.
FindUser(username) == {i \in 1..Len(users) : users[i].username = username}

\* POST /auth/register, up to the existence check and the hashing.
register(p, username, password, salt) ==
    /\ pc[p] = "idle"
    /\ IF FindUser(username) # {}
       THEN /\ Reply("register", username, NoArg, NoArg, DuplicateUsername)
            /\ UNCHANGED <<pc, req>>
       ELSE /\ pc' = [pc EXCEPT ![p] = "register_insert"]
            /\ req' = [req EXCEPT ![p] =
                    [op |-> "register", username |-> username,
                     hashed_pw |-> hash_password(password, salt)]]
            /\ UNCHANGED done
    /\ UNCHANGED <<clock, users, notes, noteSeq, issued>>

\* POST /auth/register: the INSERT and the commit.  username is UNIQUE: the INSERT
\* of a name that is in the table by now raises sqlite3.IntegrityError, which
\* register does not catch.
register_insert(p) ==
    /\ pc[p] = "register_insert"
    /\ IF FindUser(req[p].username) # {}
       THEN /\ Reply("register", req[p].username, NoArg, NoArg, Unhandled("IntegrityError"))
            /\ UNCHANGED users
       ELSE /\ users' = Append(users, [username |-> req[p].username,
                                       password_hash |-> req[p].hashed_pw])
            /\ Reply("register", req[p].username, NoArg, NoArg,
                     Ok([id |-> Len(users) + 1, username |-> req[p].username,
                         message |-> "User created"]))
    /\ pc' = [pc EXCEPT ![p] = "idle"]
    /\ req' = [req EXCEPT ![p] = Idle]
    /\ UNCHANGED <<clock, notes, noteSeq, issued>>

\* The test of login that raises HTTPException(401, "Invalid credentials").
BadCredentials(found, password) ==
    found = {} \/ \A i \in found : ~verify_password(password, users[i].password_hash)

\* A login that tells an unknown username from a wrong password.
LoginFailure_named(found) ==
    IF found = {}
    THEN [kind |-> "InvalidCredentials", status |-> 401, detail |-> "User not found"]
    ELSE InvalidCredentials

\* The response of login to a username that is not in the table (found is empty)
\* and to a wrong password: one raise statement serves both.
LoginFailure(found) == InvalidCredentials

\* POST /auth/login
login(p, username, password) ==
    /\ pc[p] = "idle"
    /\ LET found == FindUser(username)
       IN  IF BadCredentials(found, password)
           THEN /\ Reply("login", username, NoArg, NoArg, LoginFailure(found))
                /\ UNCHANGED issued
           ELSE \E i \in found :
                  LET access_token == create_access_token(i, clock)
                  IN  /\ Cardinality(issued) < MaxTokens
                      /\ issued' = issued \cup {[token |-> access_token, iat |-> clock,
                                                username |-> username]}
                      /\ Reply("login", username, NoArg, NoArg,
                               Ok([access_token |-> access_token, token_type |-> "bearer"]))
    /\ UNCHANGED <<clock, users, notes, noteSeq, pc, req>>

-----
(* The service from an empty database: registration, login and token checks *)

InitAuth ==
    /\ clock = 0
    /\ users = <<>>
    /\ notes = <<>>
    /\ noteSeq = 0
    /\ issued = {}
    /\ pc = [p \in Procs |-> "idle"]
    /\ req = [p \in Procs |-> Idle]
    /\ done = [op |-> "none", user |-> NoArg, note_id |-> NoArg, updated_at |-> NoArg,
               resp |-> NoResponse]

\* Time is followed tick by tick within the first second and around the end of
\* the window of the tokens issued in it, and skipped in between.
TickAuth ==
    /\ \/ clock + 1 < TicksPerSecond
       \/ clock >= WindowTicks - TicksPerSecond /\ clock < WindowTicks + (2 * TicksPerSecond)
    /\ Advance(1)

SleepAuth ==
    /\ clock < TicksPerSecond
    /\ Advance(WindowTicks - TicksPerSecond)

NextAuth ==
    \/ \E p \in Procs, u \in Usernames : register(p, u, "pw1", "s1")
    \/ \E p \in Procs : register_insert(p)
    \/ \E p \in Procs, u \in Usernames, pw \in Passwords : login(p, u, pw)
    \/ \E p \in Procs, tk \in IssuedTokens : get_notes(p, tk)
    \/ TickAuth
    \/ SleepAuth

SpecAuth == InitAuth /\ [][NextAuth]_vars

-----------------------------------------------------------------------------
(* The notes routes, with two registered users who have logged in: Spec runs *)
(* the owner's requests in concurrent handlers, SpecGate (below) runs every   *)
(* caller's requests one at a time.                                           *)

\* alice and bob have registered, in this order, and each has logged in at tick 0.
Registered ==
    <<[username |-> "alice", password_hash |-> hash_password("pw1", "s1")],
      [username |-> "bob", password_hash |-> hash_password("pw1", "s1")]>>

Alice == CHOOSE i \in DOMAIN Registered : Registered[i].username = "alice"
Bob == CHOOSE i \in DOMAIN Registered : Registered[i].username = "bob"

Init ==
    /\ clock = 0
    /\ users = Registered
    /\ notes = <<>>
    /\ noteSeq = 0
    /\ issued = {[token |-> create_access_token(u, 0), iat |-> 0,
                  username |-> Registered[u].username] : u \in DOMAIN Registered}
    /\ pc = [p \in Procs |-> "idle"]
    /\ req = [p \in Procs |-> Idle]
    /\ done = [op |-> "none", user |-> NoArg, note_id |-> NoArg, updated_at |-> NoArg,
               resp |-> NoResponse]

\* The notes routes read the clock through CURRENT_TIMESTAMP only: a second passes.
Tick ==
    /\ clock + TicksPerSecond <= MaxTick
    /\ Advance(TicksPerSecond)

\* Time passes until every issued token has expired.
Sleep ==
    /\ clock <= MaxTick
    /\ Advance(WindowTicks + TicksPerSecond)

\* The tokens login has issued to a user.
TokensOf(user) == {t \in IssuedTokens : t.user_id = user}

\* The updated_at values a client sends: the timestamps of the seconds explored.
Markers == 0..(MaxTick \div TicksPerSecond)

\* Concurrent handlers serving the owner of the notes.
Next ==
    \/ \E p \in Procs, tk \in TokensOf(Alice), pl \in Payloads :
          create_note(p, tk, pl.title, pl.content)
    \/ \E p \in Procs : create_note_fetch(p)
    \/ \E p \in Procs, tk \in TokensOf(Alice), i \in NoteIds : get_note(p, tk, i)
    \/ \E p \in Procs, tk \in TokensOf(Alice), i \in NoteIds, pl \in Payloads, m \in Markers :
          update_note(p, tk, i, pl.title, pl.content, m)
    \/ \E p \in Procs : update_note_write(p)
    \/ \E p \in Procs : update_note_fetch(p)
    \/ \E p \in Procs, tk \in TokensOf(Alice), i \in NoteIds : delete_note(p, tk, i)
    \/ \E p \in Procs : delete_note_exec(p)
    \/ Tick

Spec == Init /\ [][Next]_vars

-----------------------------------------------------------------------------
(* The notes routes behind get_current_user: one handler, callers with valid, *)
(* expired and forged tokens                                                 *)

GateTokens == IssuedTokens \cup ForgedTokens

NextGate ==
    \/ \E p \in {"h1"}, tk \in GateTokens \ TokensOf(Bob), pl \in Payloads :
          create_note(p, tk, pl.title, pl.content)
    \/ \E p \in {"h1"} : create_note_fetch(p)
    \/ \E p \in {"h1"}, tk \in GateTokens : get_notes(p, tk)
    \/ \E p \in {"h1"}, tk \in GateTokens, i \in NoteIds : get_note(p, tk, i)
    \/ \E p \in {"h1"}, tk \in GateTokens, i \in NoteIds, pl \in Payloads, m \in Markers :
          update_note(p, tk, i, pl.title, pl.content, m)
    \/ \E p \in {"h1"} : update_note_write(p)
    \/ \E p \in {"h1"} : update_note_fetch(p)
    \/ \E p \in {"h1"}, tk \in GateTokens, i \in NoteIds : delete_note(p, tk, i)
    \/ \E p \in {"h1"} : delete_note_exec(p)
    \/ Tick
    \/ Sleep

SpecGate == Init /\ [][NextGate]_vars

-----------------------------------------------------------------------------
(* The notes routes with two owners: one handler, both users write notes and *)
(* try every route on every id                                               *)

NextScope ==
    \/ \E p \in {"h1"}, tk \in IssuedTokens, pl \in Payloads :
          create_note(p, tk, pl.title, pl.content)
    \/ \E p \in {"h1"} : create_note_fetch(p)
    \/ \E p \in {"h1"}, tk \in IssuedTokens : get_notes(p, tk)
    \/ \E p \in {"h1"}, tk \in IssuedTokens, i \in NoteIds : get_note(p, tk, i)
    \/ \E p \in {"h1"}, tk \in IssuedTokens, i \in NoteIds, pl \in Payloads, m \in Markers :
          update_note(p, tk, i, pl.title, pl.content, m)
    \/ \E p \in {"h1"} : update_note_write(p)
    \/ \E p \in {"h1"} : update_note_fetch(p)
    \/ \E p \in {"h1"}, tk \in IssuedTokens, i \in NoteIds : delete_note(p, tk, i)
    \/ \E p \in {"h1"} : delete_note_exec(p)
    \/ Tick

SpecScope == Init /\ [][NextScope]_vars

-----------------------------------------------------------------------------
(* The service from an empty database: users register, log in and write notes *)
(* with the tokens login returned                                            *)

NextOwner ==
    \/ \E p \in {"h1"}, u \in Usernames : register(p, u, "pw1", "s1")
    \/ \E p \in {"h1"} : register_insert(p)
    \/ \E p \in {"h1"}, u \in Usernames, pw \in Passwords : login(p, u, pw)
    \/ \E p \in {"h1"}, tk \in IssuedTokens, pl \in Payloads :
          create_note(p, tk, pl.title, pl.content)
    \/ \E p \in {"h1"} : create_note_fetch(p)
    \/ \E p \in {"h1"}, tk \in IssuedTokens, i \in NoteIds : delete_note(p, tk, i)
    \/ \E p \in {"h1"} : delete_note_exec(p)
    \/ Tick

SpecOwner == InitAuth /\ [][NextOwner]_vars

-----------------------------------------------------------------------------
(* Properties of the conflict-aware update (Spec) and of owner scoping (SpecScope) *)

\* The caller get_current_user finds for a token that is valid now (no user
\* for a token it turns away or may turn away).
CallerOf(tk) ==
    IF get_current_user(tk, clock) = {tk.user_id} /\ tk.user_id # None
    THEN tk.user_id ELSE None

\* Handler p has passed the collision test of an update of note i with the
\* believed marker m and has committed its UPDATE.
HasWritten(p, i, m) ==
    /\ pc[p] = "update_fetch"
    /\ req[p].note_id = i
    /\ req[p].updated_at = m

\* C1: of two concurrent update attempts on one note that carry the same believed
\* marker, at most one is applied (the other is answered Conflict): no state has
\* two handlers that both passed the collision test with the same marker and both
\* committed their UPDATE of the note.
C1_AtMostOneWinner ==
    \A p, q \in Procs : \A i \in DOMAIN notes : \A m \in Markers :
        p # q => ~(HasWritten(p, i, m) /\ HasWritten(q, i, m))

\* C2: every applied update of a note leaves its updated_at strictly greater than
\* it was before the UPDATE.
C2_MarkerStrictlyIncreases ==
    [][\A p \in Procs :
        (update_note_write(p) /\ OwnedBy(req[p].note_id, req[p].user))
            => notes'[req[p].note_id].updated_at > notes[req[p].note_id].updated_at]_vars

\* C3: when the response last sent is the success of an update of note i that
\* carried the believed marker m, the owner's next update of i that again carries
\* m is answered Conflict, and the current_note of that Conflict has the content
\* the successful update returned.
C3_StaleMarkerConflicts ==
    [][\A p \in Procs, tk \in IssuedTokens, pl \in Payloads :
        (/\ done.op = "update_note"
         /\ done.resp.kind = "ok"
         /\ CallerOf(tk) = done.user
         /\ update_note(p, tk, done.note_id, pl.title, pl.content, done.updated_at))
            => /\ done'.resp.kind = "Conflict"
               /\ done'.resp.detail.current_note.content = done.resp.body.content]_vars

\* C4: an update by the owner whose believed marker differs from the stored one is
\* answered at once with Conflict, which carries the stored note and the caller's
\* title and content; the table notes is left as it was.
C4_ConflictLeavesNote ==
    [][\A tk \in IssuedTokens, i \in DOMAIN notes :
        CallerOf(tk) = notes[i].owner_id =>
            \A m \in Markers \ {notes[i].updated_at}, pl \in Payloads, p \in Procs :
                update_note(p, tk, i, pl.title, pl.content, m)
                    => /\ notes' = notes
                       /\ pc' = pc
                       /\ done'.resp.kind = "Conflict"
                       /\ done'.resp.status = 409
                       /\ done'.resp.detail.current_note = notes[i]
                       /\ done'.resp.detail.your_changes = pl]_vars

\* A Conflict was sent for a note that is stored as the Conflict shows it.
C4_Witness ==
    /\ done.op = "update_note"
    /\ done.resp.kind = "Conflict"
    /\ done.note_id \in DOMAIN notes
    /\ notes[done.note_id] = done.resp.detail.current_note
    /\ done.resp.detail.current_note.updated_at # done.updated_at

\* C5: get_note, update_note and delete_note by a caller who does not own note i
\* are answered NotFound, as they are for an id that is not in the table, whatever
\* marker is sent, and change no row.
C5_OtherUsersNotFound ==
    [][\A tk \in IssuedTokens, i \in NoteIds :
        (/\ CallerOf(tk) # None
         /\ i \in DOMAIN notes => notes[i].owner_id # CallerOf(tk))
            => \A p \in Procs :
                (\/ get_note(p, tk, i)
                 \/ delete_note(p, tk, i)
                 \/ \E pl \in Payloads, m \in Markers :
                        update_note(p, tk, i, pl.title, pl.content, m))
                    => /\ notes' = notes
                       /\ pc' = pc
                       /\ done'.resp = NotFound]_vars

\* Another user's request for a stored note was answered NotFound.
C5_Witness ==
    /\ done.op \in {"get_note", "update_note", "delete_note"}
    /\ done.resp = NotFound
    /\ done.note_id \in DOMAIN notes
    /\ done.user # None
    /\ notes[done.note_id].owner_id # done.user

-----------------------------------------------------------------------------
(* Properties of registration, login and tokens (SpecAuth, SpecGate) *)

\* C6: register succeeds at most once per username (no two rows of users hold one
\* username), and every register that does not succeed, also one whose SELECT and
\* INSERT interleave with those of a concurrent register of the same username,
\* ends with DuplicateUsername.
C6_RegisterOnce ==
    /\ \A u \in Usernames : Cardinality(FindUser(u)) <= 1
    /\ (done.op = "register" /\ done.resp.kind # "ok") => done.resp = DuplicateUsername

\* The tick at which the window of a token issued at tick iat ends.
WindowEnd(iat) == iat + WindowTicks

\* The first tick of the second in which tick t lies.
SecondOf(t) == (t \div TicksPerSecond) * TicksPerSecond

\* C7 as stated: a request with a token issued by login is never answered
\* InvalidToken before the clock reaches the tick of issuance plus the window, and
\* is always answered InvalidToken once the clock has passed it.
C7_ExactWindow ==
    [][\A i \in issued : \A p \in Procs :
        get_notes(p, i.token)
            => /\ clock < WindowEnd(i.iat) => done'.resp # InvalidToken
               /\ clock > WindowEnd(i.iat) => done'.resp = InvalidToken]_vars

\* C7, amended: a request with a token issued by login is never answered
\* InvalidToken before the whole second in which issuance plus the window falls,
\* and is always answered InvalidToken once that second is over.
C7_WindowToTheSecond ==
    [][\A i \in issued : \A p \in Procs :
        get_notes(p, i.token)
            => /\ clock < SecondOf(WindowEnd(i.iat)) => done'.resp.kind = "ok"
               /\ clock >= SecondOf(WindowEnd(i.iat)) + TicksPerSecond
                    => done'.resp = InvalidToken]_vars

\* A token issued off the second boundary has been refused after its window.
C7_Witness ==
    /\ done.op = "get_notes"
    /\ done.resp = InvalidToken
    /\ \E i \in issued : /\ SecondOf(i.iat) # i.iat
                         /\ clock >= SecondOf(WindowEnd(i.iat)) + TicksPerSecond

\* A token that jwt.decode or the user_id test must refuse at tick now: it does
\* not decode, its signature is not ours, it has no user_id claim, or the second
\* of its exp is over.
VerifyFails(tk, now) ==
    \/ tk.form # "jwt"
    \/ tk.sig # "good"
    \/ tk.user_id = None
    \/ now >= (tk.exp + 1) * TicksPerSecond

\* C8: createNote, listNotes, getNote, updateNote and deleteNote invoked with a
\* token whose verification fails end with 401 Invalid token, start no statement
\* on the database (users, notes and the id sequence are unchanged, the handler is
\* idle again) and return no note.
C8_FailsClosed ==
    [][\A tk \in GateTokens :
        VerifyFails(tk, clock) =>
            \A p \in Procs :
                (\/ get_notes(p, tk)
                 \/ \E pl \in Payloads : create_note(p, tk, pl.title, pl.content)
                 \/ \E i \in NoteIds :
                        \/ get_note(p, tk, i)
                        \/ delete_note(p, tk, i)
                        \/ \E pl \in Payloads, m \in Markers :
                              update_note(p, tk, i, pl.title, pl.content, m))
                => /\ done'.resp = InvalidToken
                   /\ users' = users
                   /\ notes' = notes
                   /\ noteSeq' = noteSeq
                   /\ pc' = pc]_vars

\* An update was refused with Invalid token after every issued token had expired,
\* with notes in the table.
C8_Witness ==
    /\ done.op = "update_note"
    /\ done.resp = InvalidToken
    /\ DOMAIN notes # {}
    /\ \A tk \in IssuedTokens : VerifyFails(tk, clock)

\* Password pw is the password of the user registered as u.
CorrectPassword(u, pw) ==
    \E i \in FindUser(u) : verify_password(pw, users[i].password_hash)

\* C9: login with a registered username and its password answers with a token
\* that get_current_user resolves, at the time of issue, to the id of that user's
\* row; and a request made with an issued token before the second of its expiry
\* runs as the user that logged in, never as another user.
C9_TokenNamesItsUser ==
    [][/\ \A p \in Procs, u \in Usernames, pw \in Passwords :
            (login(p, u, pw) /\ CorrectPassword(u, pw))
                => /\ done'.resp.kind = "ok"
                   /\ \E i \in FindUser(u) :
                        get_current_user(done'.resp.body.access_token, clock) = {i}
       /\ \A i \in issued : \A p \in Procs :
            (get_notes(p, i.token) /\ clock < SecondOf(WindowEnd(i.iat)))
                => /\ done'.resp.kind = "ok"
                   /\ done'.user \in FindUser(i.username)
                   /\ \A v \in Usernames \ {i.username} : done'.user \notin FindUser(v)]_vars

\* With two users registered, a request with the token of the second one has run
\* as the second one.
C9_Witness ==
    /\ done.op = "get_notes"
    /\ done.resp.kind = "ok"
    /\ Len(users) = 2
    /\ \E i \in issued : FindUser(i.username) = {2} /\ done.user = 2

\* C10: a login that fails is answered 401 "Invalid credentials" whether the
\* username is not in users or the password is wrong, and issues no token; the
\* response to a failed login equals the response to the failed login before it.
C10_SameFailure ==
    [][\A p \in Procs, u \in Usernames, pw \in Passwords :
        (login(p, u, pw) /\ ~CorrectPassword(u, pw))
            => /\ done'.resp = InvalidCredentials
               /\ issued' = issued
               /\ (done.op = "login" /\ done.resp.kind # "ok") => done'.resp = done.resp]_vars

\* A login with a registered username and a wrong password has failed while
\* another username is not registered.
C10_Witness ==
    /\ done.op = "login"
    /\ done.resp = InvalidCredentials
    /\ FindUser(done.user) # {}
    /\ \E u \in Usernames : FindUser(u) = {}

-----------------------------------------------------------------------------
(* Properties of deletion and of the outcomes under races *)

\* Note id i was stored once and its row is gone.
Deleted(i) == i <= noteSeq /\ i \notin DOMAIN notes

\* C11: a deleted note never comes back, whatever is done afterwards (later
\* creates and writes of updates in flight included), and a getNote, updateNote or
\* deleteNote that starts on an id whose row is gone, or on an id that never
\* existed, is answered 404 Note not found and changes nothing.
C11_DeletionIsTerminal ==
    [][/\ \A i \in NoteIds : Deleted(i) => Deleted(i)'
       /\ \A tk \in IssuedTokens, i \in NoteIds :
            (CallerOf(tk) # None /\ i \notin DOMAIN notes)
                => \A p \in Procs :
                    (\/ get_note(p, tk, i)
                     \/ delete_note(p, tk, i)
                     \/ \E pl \in Payloads, m \in Markers :
                            update_note(p, tk, i, pl.title, pl.content, m))
                    => /\ done'.resp = NotFound
                       /\ notes' = notes
                       /\ pc' = pc]_vars

\* A request on the id of a deleted note was answered NotFound after a later
\* note had been created.
C11_Witness ==
    /\ done.op \in {"get_note", "update_note", "delete_note"}
    /\ done.resp = NotFound
    /\ done.note_id \in NoteIds
    /\ Deleted(done.note_id)
    /\ \E j \in DOMAIN notes : j > done.note_id

\* C12: a deleteNote by the owner of a stored note passes straight to its DELETE,
\* whatever the note's marker and whatever update of the note is in flight, and
\* once the DELETE has committed the row is gone, every other row is as it was,
\* and the caller is answered 200.
C12_DeleteIsUnconditional ==
    [][/\ \A tk \in IssuedTokens, i \in DOMAIN notes :
            CallerOf(tk) = notes[i].owner_id =>
                \A p \in Procs :
                    delete_note(p, tk, i)
                        => pc'[p] = "delete_exec" /\ req'[p].note_id = i /\ done' = done
       /\ \A p \in Procs :
            delete_note_exec(p)
                => /\ req[p].note_id \notin DOMAIN notes'
                   /\ \A j \in DOMAIN notes \ {req[p].note_id} :
                        j \in DOMAIN notes' /\ notes'[j] = notes[j]
                   /\ done'.resp = Ok([message |-> "Note deleted successfully"])]_vars

\* A delete has succeeded on a note while an update of that note, which passed
\* its collision test before the DELETE, is still in flight.
C12_Witness ==
    /\ done.op = "delete_note"
    /\ done.resp.kind = "ok"
    /\ \E q \in Procs : /\ pc[q] \in {"update_write", "update_fetch"}
                        /\ req[q].note_id = done.note_id

\* The outcomes of the notes routes that the interface names: success and the
\* error kinds NotFound, Conflict and InvalidToken.
DomainOutcomes == {"ok", "NotFound", "Conflict", "InvalidToken"}

\* C13: every response of a notes route, under every interleaving of the handlers,
\* is a success or one of the domain errors; an update whose note is deleted
\* between its collision test and its re-read is no exception.
C13_DomainOutcomesOnly ==
    done.op # "none" => done.resp.kind \in DomainOutcomes

-----------------------------------------------------------------------------
(* Properties of what the notes routes store and return *)

\* C14: an updateNote by the owner that carries the stored marker of the note is
\* never refused, whatever title and content it proposes (the ones already stored
\* included): it goes on to its UPDATE with the proposed values, and when that
\* UPDATE commits on the stored row, the row's title and content are the proposed
\* ones.
C14_MatchingUpdateApplied ==
    [][/\ \A tk \in IssuedTokens, i \in DOMAIN notes :
            CallerOf(tk) = notes[i].owner_id =>
                \A p \in Procs, pl \in Payloads :
                    update_note(p, tk, i, pl.title, pl.content, notes[i].updated_at)
                        => /\ pc'[p] = "update_write"
                           /\ req'[p].note_id = i
                           /\ req'[p].title = pl.title
                           /\ req'[p].content = pl.content
                           /\ done' = done
       /\ \A p \in Procs :
            (update_note_write(p) /\ req[p].note_id \in DOMAIN notes)
                => /\ req[p].note_id \in DOMAIN notes'
                   /\ notes'[req[p].note_id].title = req[p].title
                   /\ notes'[req[p].note_id].content = req[p].content
                   /\ pc'[p] = "update_fetch"]_vars

\* After a successful update, the same title and content with the marker of its
\* response have passed the collision test again and have been written.
C14_Witness ==
    /\ done.op = "update_note"
    /\ done.resp.kind = "ok"
    /\ \E p \in Procs :
        /\ pc[p] = "update_fetch"
        /\ req[p].note_id = done.note_id
        /\ req[p].updated_at = done.resp.body.updated_at
        /\ req[p].note_id \in DOMAIN notes
        /\ notes[req[p].note_id].title = done.resp.body.title
        /\ notes[req[p].note_id].content = done.resp.body.content
        /\ notes[req[p].note_id].updated_at > done.resp.body.updated_at

\* C15: listNotes answers an authenticated caller with the rows of notes whose
\* owner_id is the caller, each stored row of the caller once and as stored and no
\* row of another user, in an order in which updated_at never increases.
C15_ListingIsOwnNotesNewestFirst ==
    [][\A tk \in IssuedTokens :
        CallerOf(tk) # None =>
            \A p \in Procs :
                get_notes(p, tk)
                    => /\ done'.resp.kind = "ok"
                       /\ LET rows == done'.resp.body
                              own == {i \in DOMAIN notes : notes[i].owner_id = CallerOf(tk)}
                          IN  /\ Len(rows) = Cardinality(own)
                              /\ {rows[k].id : k \in 1..Len(rows)} = own
                              /\ \A k \in 1..Len(rows) : rows[k] = notes[rows[k].id]
                              /\ \A k, j \in 1..Len(rows) :
                                    k < j => rows[k].updated_at >= rows[j].updated_at]_vars

\* A listing of two notes has been returned in which the note created first,
\* updated in a later second, comes before the note created after it.
C15_Witness ==
    /\ done.op = "get_notes"
    /\ done.resp.kind = "ok"
    /\ Len(done.resp.body) = 2
    /\ done.resp.body[1].id < done.resp.body[2].id
    /\ done.resp.body[1].updated_at > done.resp.body[2].updated_at

\* C16: createNote by an authenticated caller stores a row whose owner_id is the
\* caller, whose title and content are the proposed ones and whose created_at and
\* updated_at are both the store's current time, and, served on its own, returns
\* that row: the caller as owner, the proposed title and content, and the two
\* timestamps equal.
C16_CreatedNoteIsTheCallers ==
    [][\A p \in Procs :
        /\ \A tk \in IssuedTokens, pl \in Payloads :
            (CallerOf(tk) # None /\ create_note(p, tk, pl.title, pl.content))
                => /\ DOMAIN notes' = DOMAIN notes \cup {req'[p].note_id}
                   /\ req'[p].note_id \notin DOMAIN notes
                   /\ notes'[req'[p].note_id] =
                        [id |-> req'[p].note_id, title |-> pl.title, content |-> pl.content,
                         owner_id |-> CallerOf(tk),
                         created_at |-> CURRENT_TIMESTAMP, updated_at |-> CURRENT_TIMESTAMP]
        /\ (create_note_fetch(p) /\ req[p].note_id \in DOMAIN notes)
                => /\ done'.resp.kind = "ok"
                   /\ done'.resp.body = notes[req[p].note_id]
                   /\ done'.resp.body.id = req[p].note_id
                   /\ done'.resp.body.owner_id = req[p].user
                   /\ done'.resp.body.title = req[p].title
                   /\ done'.resp.body.content = req[p].content
                   /\ done'.resp.body.created_at = done'.resp.body.updated_at
                   /\ done'.resp.body.created_at <= CURRENT_TIMESTAMP]_vars

\* The second user has created a note in a later second than the first note and
\* has been returned it.
C16_Witness ==
    /\ done.op = "create_note"
    /\ done.resp.kind = "ok"
    /\ done.user = Bob
    /\ done.resp.body.owner_id = Bob
    /\ done.resp.body.created_at > 0
    /\ done.resp.body.updated_at = done.resp.body.created_at

\* C17: a stored note that stays stored changes only in the UPDATE of an
\* updateNote on that note, and then only in title, content and updated_at, the
\* new updated_at being the store's current time and not the value the caller
\* sent; that UPDATE leaves every other note as it was.
C17_OnlyUpdateChangesANote ==
    [][/\ \A i \in DOMAIN notes \cap DOMAIN notes' :
            notes'[i] # notes[i]
                => /\ \E p \in Procs : update_note_write(p) /\ req[p].note_id = i
                   /\ notes'[i].id = notes[i].id
                   /\ notes'[i].owner_id = notes[i].owner_id
                   /\ notes'[i].created_at = notes[i].created_at
                   /\ notes'[i].updated_at = CURRENT_TIMESTAMP
       /\ \A p \in Procs :
            update_note_write(p)
                => /\ DOMAIN notes' = DOMAIN notes
                   /\ \A j \in DOMAIN notes \ {req[p].note_id} : notes'[j] = notes[j]]_vars

\* Two handlers have each written an update, to different notes, and one of the
\* notes now differs from the other in title.
C17_Witness ==
    \E p, q \in Procs :
        /\ pc[p] = "update_fetch"
        /\ pc[q] = "update_fetch"
        /\ req[p].note_id # req[q].note_id
        /\ req[p].note_id \in DOMAIN notes
        /\ req[q].note_id \in DOMAIN notes
        /\ notes[req[p].note_id].title # notes[req[q].note_id].title

\* C18: the note a successful updateNote returns has the title and content this
\* caller proposed, also when another request on the note commits between this
\* caller's UPDATE and its re-read.
C18_ReturnsOwnWrite ==
    [][\A p \in Procs :
        (update_note_fetch(p) /\ done'.resp.kind = "ok")
            => /\ done'.resp.body.title = req[p].title
               /\ done'.resp.body.content = req[p].content]_vars

\* C19: the id createNote assigns is larger than every id assigned before it, so
\* it is the id of no stored note and of no deleted note, and it is recorded as
\* assigned.
C19_IdsAreNeverReused ==
    [][\A p \in Procs, tk \in IssuedTokens, pl \in Payloads :
        (CallerOf(tk) # None /\ create_note(p, tk, pl.title, pl.content))
            => /\ req'[p].note_id > noteSeq
               /\ req'[p].note_id \notin DOMAIN notes
               /\ \A i \in NoteIds : Deleted(i) => req'[p].note_id # i /\ Deleted(i)'
               /\ \A i \in DOMAIN notes : notes'[i] = notes[i]
               /\ noteSeq' = req'[p].note_id]_vars

\* A note has been created after the note with the largest id so far had been
\* deleted.
C19_Witness ==
    \E p \in Procs :
        /\ pc[p] = "create_fetch"
        /\ req[p].note_id \in DOMAIN notes
        /\ req[p].note_id > 1
        /\ Deleted(req[p].note_id - 1)

\* C20: with tokens obtained through login only, the owner_id of every stored
\* note is the id of a row of users, and no row of users is ever removed or
\* changed.
C20_OwnersAreRegistered ==
    [][/\ \A i \in DOMAIN notes' : notes'[i].owner_id \in 1..Len(users')
       /\ Len(users') >= Len(users)
       /\ \A u \in 1..Len(users) : users'[u] = users[u]]_vars

\* Both users are registered and the one registered second owns a stored note.
C20_Witness ==
    /\ Len(users) = 2
    /\ \E i \in DOMAIN notes : notes[i].owner_id = 2

====
